---- MODULE Spec2Model ----
(***************************************************************************)
(* Model of the subagent discovery registry (src/src/registry.ts).         *)
(*                                                                         *)
(* Conventions                                                             *)
(*   - a JavaScript string is a sequence of one-character strings, so that *)
(*     toLowerCase, includes and split are computed, not assumed;          *)
(*   - an optional value (`x?: T`) is a sequence of length 0 (undefined)   *)
(*     or 1 (<<v>>);                                                       *)
(*   - a JavaScript Map is a sequence of entries in insertion order;       *)
(*     Map.set on an existing key keeps the entry's position;              *)
(*   - manifests are objects: `heap` maps an object reference to its       *)
(*     current value, and the registry stores references;                  *)
(*   - successScore and typicalLatencyMs are exact rationals kept as       *)
(*     integers over the denominator Scale.                                *)
(***************************************************************************)
EXTENDS Integers, Sequences, FiniteSets, TLC

VARIABLES
  heap,          \* object reference -> SubagentManifest value
  manifests,     \* Map<string, SubagentManifest>: id -> object reference
  capsules,      \* Map<string, SubagentCapsule>: entries in insertion order
  aliasMap,      \* Map<string, string>: lower-cased token -> id
  sessionCache,  \* Map<string, {capsules, timestamp}>
  manifestCache, \* Map<string, {manifest, timestamp}>
  now,           \* Date.now()
  last,          \* the latest call, what it returned and, for a search or a
                 \* fetch, when it was made
  invocations,   \* the invoke_subagent calls of the tool server, in order of
                 \* arrival, each with the position of its handler and runner
  reply          \* the latest response of the tool server's CallTool handler

vars == <<heap, manifests, capsules, aliasMap, sessionCache, manifestCache, now, last,
          invocations, reply>>

\* the state of the tool server, which the registry's own operations leave alone
serverVars == <<invocations, reply>>

-----------------------------------------------------------------------------
(* Bounds *)

MaxInvocations == 2   \* telemetry updates per manifest object
MaxTicks == 2         \* clock advances in one behaviour
MaxKeys == 21         \* distinct limits used by the cache-filling caller

-----------------------------------------------------------------------------
(* Program constants *)

CACHE_TTL == 5 * 60 * 1000
MAX_SEARCH_CACHE == 20
MAX_MANIFEST_CACHE == 5
DefaultK == 5

RECURSIVE Pow10(_)
Pow10(n) == IF n = 0 THEN 1 ELSE 10 * Pow10(n - 1)

\* denominator of the fixed-point telemetry numbers: every value that
\* MaxInvocations smoothing steps can produce is an integer over Scale
Scale == Pow10(MaxInvocations)

TickStep == CACHE_TTL \div 2

-----------------------------------------------------------------------------
(* Strings *)

LowerChar(c) ==
  CASE c = "A" -> "a"
    [] c = "B" -> "b"
    [] c = "C" -> "c"
    [] c = "Y" -> "y"
    [] c = "Z" -> "z"
    [] OTHER -> c

toLowerCase(s) == [i \in 1..Len(s) |-> LowerChar(s[i])]

includes(s, sub) ==
  \E i \in 0..(Len(s) - Len(sub)) : SubSeq(s, i + 1, i + Len(sub)) = sub

\* index of the first non-blank character at or after i (Len(s)+1 if none)
RECURSIVE skipBlanks(_, _)
skipBlanks(s, i) ==
  IF i > Len(s) THEN i
  ELSE IF s[i] = " " THEN skipBlanks(s, i + 1) ELSE i

\* String.prototype.split(/\s+/)
RECURSIVE splitWs(_, _, _)
splitWs(s, i, cur) ==
  IF i > Len(s) THEN <<cur>>
  ELSE IF s[i] = " "
       THEN <<cur>> \o splitWs(s, skipBlanks(s, i), <<>>)
       ELSE splitWs(s, i + 1, Append(cur, s[i]))

\* query.split(/\s+/).filter(w => w.length > 2)
queryWordsOf(query) == SelectSeq(splitWs(query, 1, <<>>), LAMBDA w : Len(w) > 2)

\* Array.prototype.includes on an array of strings
arrIncludes(arr, x) == \E i \in 1..Len(arr) : arr[i] = x

\* sum of a sequence of numbers
RECURSIVE SumSeq(_)
SumSeq(ns) == IF Len(ns) = 0 THEN 0 ELSE ns[1] + SumSeq(Tail(ns))

-----------------------------------------------------------------------------
(* Optional values *)

None == <<>>
Some(v) == <<v>>
IsSome(o) == Len(o) = 1
OrElse(o, d) == IF Len(o) = 1 THEN o[1] ELSE d

-----------------------------------------------------------------------------
(* Map<K, V> as a sequence of entries with a `key` field *)

MapHas(m, k) == \E i \in 1..Len(m) : m[i].key = k

MapIndex(m, k) == CHOOSE i \in 1..Len(m) : m[i].key = k

MapGet(m, k) == IF MapHas(m, k) THEN Some(m[MapIndex(m, k)]) ELSE None

MapSet(m, e) ==
  IF MapHas(m, e.key)
  THEN [m EXCEPT ![MapIndex(m, e.key)] = e]
  ELSE Append(m, e)

MapDelete(m, k) == SelectSeq(m, LAMBDA e : e.key # k)

MapKeys(m) == {m[i].key : i \in 1..Len(m)}

Min(a, b) == IF a < b THEN a ELSE b
Max(a, b) == IF a > b THEN a ELSE b

\* Array.prototype.slice(start, end): negative indices count from the end
sliceIndex(i, n) == IF i < 0 THEN Max(n + i, 0) ELSE Min(i, n)

slice(arr, start, end) ==
  SubSeq(arr, sliceIndex(start, Len(arr)) + 1, sliceIndex(end, Len(arr)))

-----------------------------------------------------------------------------
(* Strings used by the catalogs and the requests *)

sA == <<"a">>
sAB == <<"a", "b">>
sBC == <<"b", "c">>
sBCupper == <<"B", "C">>
sABC == <<"a", "b", "c">>
sABCupper == <<"A", "B", "C">>
sX == <<"x">>
sY == <<"y">>
sZ == <<"z">>
sABCZ == <<"a", "b", "c", " ", "z">>
sNope == <<"n", "o">>
sZupper == <<"Z">>
sB == <<"b">>
sC == <<"c">>
sEmpty == <<>>

-----------------------------------------------------------------------------
(* Descriptor Store *)

\* a capsule built without the capability keywords
capsuleOfWithoutCapabilities(manifest) ==
  [ key          |-> manifest.id,
    id           |-> manifest.id,
    aliases      |-> manifest.aliases,
    summary      |-> manifest.summary,
    tags         |-> manifest.tags,
    latencyClass |-> manifest.latencyClass,
    capabilities |-> None ]

\* the capsule that register() derives from a manifest
capsuleOf(manifest) ==
  [ key          |-> manifest.id,
    id           |-> manifest.id,
    aliases      |-> manifest.aliases,
    summary      |-> manifest.summary,
    tags         |-> manifest.tags,
    latencyClass |-> manifest.latencyClass,
    capabilities |-> manifest.capabilities ]

\* for (const alias of manifest.aliases) aliasMap.set(alias.toLowerCase(), id)
RECURSIVE setAliases(_, _, _)
setAliases(am, aliases, id) ==
  IF Len(aliases) = 0 THEN am
  ELSE setAliases(MapSet(am, [key |-> toLowerCase(aliases[1]), id |-> id]),
                  Tail(aliases), id)

registerAliases(am, manifest) ==
  LET withAliases == IF IsSome(manifest.aliases)
                     THEN setAliases(am, manifest.aliases[1], manifest.id)
                     ELSE am
  IN MapSet(withAliases, [key |-> toLowerCase(manifest.id), id |-> manifest.id])

\* a JavaScript string is truthy unless it is empty
Truthy(str) == Len(str) > 0

resolveId(idOrAlias) ==
  LET e == MapGet(aliasMap, toLowerCase(idOrAlias))
  IN IF IsSome(e) THEN Some(e[1].id) ELSE None

\* the manifest value stored under an id (the id must be registered)
manifestOf(id) == heap[MapGet(manifests, id)[1].obj]

Register(o) ==
  /\ o \in DOMAIN heap
  /\ manifests' = MapSet(manifests, [key |-> heap[o].id, obj |-> o])
  /\ capsules' = MapSet(capsules, capsuleOf(heap[o]))
  /\ aliasMap' = registerAliases(aliasMap, heap[o])
  /\ last' = [op |-> "register", req |-> o, at |-> 0, resp |-> None]
  /\ UNCHANGED <<heap, sessionCache, manifestCache, now>>

-----------------------------------------------------------------------------
(* Cache Layer *)

\* key of the first entry (in iteration order) with the smallest timestamp
oldestKeyOf(cache) ==
  LET i == CHOOSE i \in 1..Len(cache) :
             /\ \A j \in 1..Len(cache) : cache[i].timestamp <= cache[j].timestamp
             /\ \A j \in 1..(i - 1) : cache[j].timestamp > cache[i].timestamp
  IN cache[i].key

\* the freshness test that still accepts an entry of exactly the TTL's age
isFreshInclusive(cached) == IsSome(cached) /\ now - cached[1].timestamp <= CACHE_TTL

\* the freshness test with the comparison inverted
isFreshInverted(cached) == IsSome(cached) /\ now - cached[1].timestamp > CACHE_TTL

\* cached && Date.now() - cached.timestamp < CACHE_TTL
isFresh(cached) == IsSome(cached) /\ now - cached[1].timestamp < CACHE_TTL

\* pruning that starts only above the capacity
pruneCacheLate(cache, maxSize) ==
  IF Len(cache) > maxSize /\ Len(cache) > 0 /\ Truthy(oldestKeyOf(cache))
  THEN MapDelete(cache, oldestKeyOf(cache))
  ELSE cache

pruneCache(cache, maxSize) ==
  IF Len(cache) >= maxSize /\ Len(cache) > 0 /\ Truthy(oldestKeyOf(cache))
  THEN MapDelete(cache, oldestKeyOf(cache))
  ELSE cache

-----------------------------------------------------------------------------
(* Relevance Ranker *)

passesLatency(request, capsule) ==
  ~ ( /\ IsSome(request.latencyClass)
      /\ capsule.latencyClass # "both"
      /\ capsule.latencyClass # request.latencyClass[1] )

passesTags(tags, capsule) ==
  (IsSome(tags) /\ Len(tags[1]) > 0)
    => \E i \in 1..Len(tags[1]) : arrIncludes(capsule.tags, tags[1][i])

passesHost(request, capsule) ==
  IF IsSome(request.hostCaps) /\ IsSome(manifestOf(capsule.id).hostCompatibility)
  THEN LET caps == request.hostCaps[1]
           hc == manifestOf(capsule.id).hostCompatibility[1]
       IN /\ (IsSome(caps.scm) /\ IsSome(hc.scm))
               => \E i \in 1..Len(caps.scm[1]) : arrIncludes(hc.scm[1], caps.scm[1][i])
          /\ (IsSome(caps.os) /\ IsSome(hc.os)) => arrIncludes(hc.os[1], caps.os[1])
          /\ ~ (~ caps.hasGui /\ hc.needsGui)
  ELSE TRUE

passesFilters(request, capsule) ==
  /\ passesLatency(request, capsule)
  /\ passesTags(request.tags, capsule)
  /\ passesHost(request, capsule)

exactMatch(capsule, query) ==
  \/ toLowerCase(capsule.id) = query
  \/ /\ IsSome(capsule.aliases)
     /\ \E i \in 1..Len(capsule.aliases[1]) : toLowerCase(capsule.aliases[1][i]) = query

tagPoints(tag, query, queryWords) ==
  (IF includes(query, toLowerCase(tag)) THEN 20 ELSE 0)
  + SumSeq([i \in 1..Len(queryWords) |->
              IF includes(toLowerCase(tag), queryWords[i]) THEN 5 ELSE 0])

\* the score accumulated before the telemetry boost
rawScore(capsule, query, queryWords) ==
  (IF exactMatch(capsule, query) THEN 100 ELSE 0)
  + SumSeq([i \in 1..Len(capsule.tags) |-> tagPoints(capsule.tags[i], query, queryWords)])
  + SumSeq([i \in 1..Len(queryWords) |->
              IF includes(toLowerCase(capsule.summary), queryWords[i]) THEN 10 ELSE 0])
  + (IF IsSome(capsule.capabilities)
     THEN SumSeq([i \in 1..Len(capsule.capabilities[1]) |->
                    IF includes(query, toLowerCase(capsule.capabilities[1][i])) THEN 15 ELSE 0])
     ELSE 0)

\* score *= 0.8 + 0.2 * successScore when successScore is truthy; the result
\* is the numerator of the score over the denominator 10 * Scale
boost(score, telemetry) ==
  IF IsSome(telemetry) /\ telemetry[1].successScore # 0
  THEN score * (8 * Scale + 2 * telemetry[1].successScore)
  ELSE score * 10 * Scale

finalScore(capsule, query, queryWords) ==
  boost(rawScore(capsule, query, queryWords), manifestOf(capsule.id).telemetry)

\* the scoring loop with the test `score >= 0`, which keeps capsules without
\* any matching signal
scoredOfKeepingZero(request) ==
  LET query == toLowerCase(request.query)
      queryWords == queryWordsOf(query)
      pass == SelectSeq(capsules, LAMBDA c : passesFilters(request, c))
      all == [i \in 1..Len(pass) |->
                [capsule |-> pass[i], score |-> finalScore(pass[i], query, queryWords)]]
  IN SelectSeq(all, LAMBDA e : e.score >= 0)

\* the entries pushed onto `scored`, in the iteration order of the capsule map
scoredOf(request) ==
  LET query == toLowerCase(request.query)
      queryWords == queryWordsOf(query)
      pass == SelectSeq(capsules, LAMBDA c : passesFilters(request, c))
      all == [i \in 1..Len(pass) |->
                [capsule |-> pass[i], score |-> finalScore(pass[i], query, queryWords)]]
  IN SelectSeq(all, LAMBDA e : e.score > 0)

\* the sort with the comparator reversed: (a, b) => a.score - b.score
RECURSIVE sortByScoreAscending(_)
sortByScoreAscending(arr) ==
  IF Len(arr) = 0 THEN <<>>
  ELSE LET rest == sortByScoreAscending(SubSeq(arr, 1, Len(arr) - 1))
           e == arr[Len(arr)]
           before == SelectSeq(rest, LAMBDA x : x.score <= e.score)
           after == SelectSeq(rest, LAMBDA x : x.score > e.score)
       IN before \o <<e>> \o after

\* Array.prototype.sort((a, b) => b.score - a.score), which is stable
RECURSIVE sortByScore(_)
sortByScore(arr) ==
  IF Len(arr) = 0 THEN <<>>
  ELSE LET rest == sortByScore(SubSeq(arr, 1, Len(arr) - 1))
           e == arr[Len(arr)]
           before == SelectSeq(rest, LAMBDA x : x.score >= e.score)
           after == SelectSeq(rest, LAMBDA x : x.score < e.score)
       IN before \o <<e>> \o after

cacheKeyOf(request) ==
  <<request.query, OrElse(request.k, DefaultK), request.tags, request.latencyClass>>

\* the search with a hit that stamps the entry it has read
SearchTouching(request) ==
  LET k == OrElse(request.k, DefaultK)
      cacheKey == cacheKeyOf(request)
      cached == MapGet(sessionCache, cacheKey)
  IN IF isFresh(cached)
     THEN /\ last' = [op |-> "search", req |-> request, at |-> now,
                      resp |-> [capsules |-> slice(cached[1].capsules, 0, k),
                                total |-> Len(cached[1].capsules),
                                cacheHit |-> TRUE]]
          /\ sessionCache' = MapSet(sessionCache, [cached[1] EXCEPT !.timestamp = now])
          /\ UNCHANGED <<heap, manifests, capsules, aliasMap, manifestCache, now>>
     ELSE LET scored == sortByScore(scoredOf(request))
              top == slice(scored, 0, k)
              topCapsules == [i \in 1..Len(top) |-> top[i].capsule]
          IN /\ sessionCache' =
                  MapSet(pruneCache(sessionCache, MAX_SEARCH_CACHE),
                         [key |-> cacheKey, capsules |-> topCapsules, timestamp |-> now])
             /\ last' = [op |-> "search", req |-> request, at |-> now,
                         resp |-> [capsules |-> topCapsules,
                                   total |-> Len(scored),
                                   cacheHit |-> FALSE]]
             /\ UNCHANGED <<heap, manifests, capsules, aliasMap, manifestCache, now>>

Search(request) ==
  LET k == OrElse(request.k, DefaultK)
      cacheKey == cacheKeyOf(request)
      cached == MapGet(sessionCache, cacheKey)
  IN IF isFresh(cached)
     THEN /\ last' = [op |-> "search", req |-> request, at |-> now,
                      resp |-> [capsules |-> slice(cached[1].capsules, 0, k),
                                total |-> Len(cached[1].capsules),
                                cacheHit |-> TRUE]]
          /\ UNCHANGED <<heap, manifests, capsules, aliasMap, sessionCache,
                         manifestCache, now>>
     ELSE LET scored == sortByScore(scoredOf(request))
              top == slice(scored, 0, k)
              topCapsules == [i \in 1..Len(top) |-> top[i].capsule]
          IN /\ sessionCache' =
                  MapSet(pruneCache(sessionCache, MAX_SEARCH_CACHE),
                         [key |-> cacheKey, capsules |-> topCapsules, timestamp |-> now])
             /\ last' = [op |-> "search", req |-> request, at |-> now,
                         resp |-> [capsules |-> topCapsules,
                                   total |-> Len(scored),
                                   cacheHit |-> FALSE]]
             /\ UNCHANGED <<heap, manifests, capsules, aliasMap, manifestCache, now>>

-----------------------------------------------------------------------------
(* Registry Facade: getManifest, list, clearCache *)

\* the fetch with the absence of an unresolved token entered in the cache
GetManifestCachingMisses(idOrAlias) ==
  LET id == resolveId(idOrAlias)
      cached == MapGet(manifestCache, id[1])
      stored == MapGet(manifests, id[1])
      answer(r) == [op |-> "getManifest", req |-> idOrAlias, at |-> now, resp |-> r]
  IN IF ~ IsSome(id) \/ ~ Truthy(id[1])
     THEN /\ manifestCache' =
               MapSet(pruneCache(manifestCache, MAX_MANIFEST_CACHE),
                      [key |-> idOrAlias, manifest |-> 0, timestamp |-> now])
          /\ last' = answer(None)
          /\ UNCHANGED <<heap, manifests, capsules, aliasMap, sessionCache, now>>
     ELSE IF isFresh(cached)
     THEN /\ last' = answer(Some(cached[1].manifest))
          /\ UNCHANGED <<heap, manifests, capsules, aliasMap, sessionCache,
                         manifestCache, now>>
     ELSE IF IsSome(stored)
     THEN /\ manifestCache' =
               MapSet(pruneCache(manifestCache, MAX_MANIFEST_CACHE),
                      [key |-> id[1], manifest |-> stored[1].obj, timestamp |-> now])
          /\ last' = answer(Some(stored[1].obj))
          /\ UNCHANGED <<heap, manifests, capsules, aliasMap, sessionCache, now>>
     ELSE /\ last' = answer(None)
          /\ UNCHANGED <<heap, manifests, capsules, aliasMap, sessionCache,
                         manifestCache, now>>

GetManifest(idOrAlias) ==
  LET id == resolveId(idOrAlias)
      cached == MapGet(manifestCache, id[1])
      stored == MapGet(manifests, id[1])
      answer(r) == [op |-> "getManifest", req |-> idOrAlias, at |-> now, resp |-> r]
  IN IF ~ IsSome(id) \/ ~ Truthy(id[1])
     THEN /\ last' = answer(None)
          /\ UNCHANGED <<heap, manifests, capsules, aliasMap, sessionCache,
                         manifestCache, now>>
     ELSE IF isFresh(cached)
     THEN /\ last' = answer(Some(cached[1].manifest))
          /\ UNCHANGED <<heap, manifests, capsules, aliasMap, sessionCache,
                         manifestCache, now>>
     ELSE IF IsSome(stored)
     THEN /\ manifestCache' =
               MapSet(pruneCache(manifestCache, MAX_MANIFEST_CACHE),
                      [key |-> id[1], manifest |-> stored[1].obj, timestamp |-> now])
          /\ last' = answer(Some(stored[1].obj))
          /\ UNCHANGED <<heap, manifests, capsules, aliasMap, sessionCache, now>>
     ELSE /\ last' = answer(None)
          /\ UNCHANGED <<heap, manifests, capsules, aliasMap, sessionCache,
                         manifestCache, now>>

DefaultPageSize == 50

\* the page with the element after its end included
listResponseInclusiveEnd(request) ==
  LET pageSize == OrElse(request.pageSize, DefaultPageSize)
      offset == OrElse(request.offset, 0)
      filtered == SelectSeq(capsules, LAMBDA c : passesTags(request.tags, c))
  IN [capsules |-> slice(filtered, offset, offset + pageSize + 1),
      total |-> Len(filtered),
      hasMore |-> offset + pageSize < Len(filtered)]

\* what list() returns
listResponse(request) ==
  LET pageSize == OrElse(request.pageSize, DefaultPageSize)
      offset == OrElse(request.offset, 0)
      filtered == SelectSeq(capsules, LAMBDA c : passesTags(request.tags, c))
  IN [capsules |-> slice(filtered, offset, offset + pageSize),
      total |-> Len(filtered),
      hasMore |-> offset + pageSize < Len(filtered)]

\* the listing with hasMore computed as offset + pageSize <= total
ListHasMoreInclusive(request) ==
  LET pageSize == OrElse(request.pageSize, DefaultPageSize)
      offset == OrElse(request.offset, 0)
      filtered == SelectSeq(capsules, LAMBDA c : passesTags(request.tags, c))
  IN /\ last' = [op |-> "list", req |-> request, at |-> now,
                 resp |-> [capsules |-> slice(filtered, offset, offset + pageSize),
                           total |-> Len(filtered),
                           hasMore |-> offset + pageSize <= Len(filtered)]]
     /\ UNCHANGED <<heap, manifests, capsules, aliasMap, sessionCache,
                    manifestCache, now>>

List(request) ==
  /\ last' = [op |-> "list", req |-> request, at |-> now, resp |-> listResponse(request)]
  /\ UNCHANGED <<heap, manifests, capsules, aliasMap, sessionCache,
                 manifestCache, now>>

\* the caches cleared together with the capsule map
ClearCacheWithCapsules ==
  /\ sessionCache' = <<>>
  /\ manifestCache' = <<>>
  /\ capsules' = <<>>
  /\ last' = [op |-> "clearCache", req |-> None, at |-> now, resp |-> None]
  /\ UNCHANGED <<heap, manifests, aliasMap, now>>

ClearCache ==
  /\ sessionCache' = <<>>
  /\ manifestCache' = <<>>
  /\ last' = [op |-> "clearCache", req |-> None, at |-> now, resp |-> None]
  /\ UNCHANGED <<heap, manifests, capsules, aliasMap, now>>

\* the first observation blended with the neutral prior 0.5 instead of taken
\* as it is
firstTelemetryFromPrior(success, latencyMs) ==
  [ successScore     |-> (5 * (Scale \div 10) * 9 + (IF success THEN Scale ELSE 0)) \div 10,
    typicalLatencyMs |-> latencyMs * Scale,
    invocationCount  |-> 1 ]

-----------------------------------------------------------------------------
(* Telemetry Tracker *)

firstTelemetry(success, latencyMs) ==
  [ successScore     |-> IF success THEN Scale ELSE 0,
    typicalLatencyMs |-> latencyMs * Scale,
    invocationCount  |-> 1 ]

\* an update that overwrites the block with that of a first observation
smoothedTelemetryFromScratch(t, success, latencyMs) == firstTelemetry(success, latencyMs)

\* the moving average with the weights of the old and the new value exchanged
smoothedTelemetrySwapped(t, success, latencyMs) ==
  [ successScore     |-> (t.successScore + 9 * (IF success THEN Scale ELSE 0)) \div 10,
    typicalLatencyMs |-> (t.typicalLatencyMs + 9 * latencyMs * Scale) \div 10,
    invocationCount  |-> t.invocationCount + 1 ]

\* the moving average with the new outcome added at full weight
smoothedTelemetryUnweighted(t, success, latencyMs) ==
  [ successScore     |-> (t.successScore * 9) \div 10 + (IF success THEN Scale ELSE 0),
    typicalLatencyMs |-> (t.typicalLatencyMs * 9 + latencyMs * Scale) \div 10,
    invocationCount  |-> t.invocationCount + 1 ]

smoothedTelemetry(t, success, latencyMs) ==
  [ successScore     |-> (t.successScore * 9 + (IF success THEN Scale ELSE 0)) \div 10,
    typicalLatencyMs |-> (t.typicalLatencyMs * 9 + latencyMs * Scale) \div 10,
    invocationCount  |-> t.invocationCount + 1 ]

\* the update preceded by an invalidation of the search cache
UpdateTelemetryInvalidating(id, success, latencyMs) ==
  LET stored == MapGet(manifests, id)
      o == stored[1].obj
      call == [op |-> "updateTelemetry",
               req |-> [id |-> id, success |-> success, latencyMs |-> latencyMs],
               at |-> 0, resp |-> None]
  IN IF ~ IsSome(stored)
     THEN /\ last' = call
          /\ sessionCache' = <<>>
          /\ UNCHANGED <<heap, manifests, capsules, aliasMap, manifestCache, now>>
     ELSE /\ IsSome(heap[o].telemetry) => heap[o].telemetry[1].invocationCount < MaxInvocations
          /\ heap' = [heap EXCEPT ![o].telemetry =
                        IF IsSome(@)
                        THEN Some(smoothedTelemetry(@[1], success, latencyMs))
                        ELSE Some(firstTelemetry(success, latencyMs))]
          /\ last' = call
          /\ sessionCache' = <<>>
          /\ UNCHANGED <<manifests, capsules, aliasMap, manifestCache, now>>

UpdateTelemetry(id, success, latencyMs) ==
  LET stored == MapGet(manifests, id)
      o == stored[1].obj
      call == [op |-> "updateTelemetry",
               req |-> [id |-> id, success |-> success, latencyMs |-> latencyMs],
               at |-> 0, resp |-> None]
  IN IF ~ IsSome(stored)
     THEN /\ last' = call
          /\ UNCHANGED <<heap, manifests, capsules, aliasMap, sessionCache,
                         manifestCache, now>>
     ELSE /\ IsSome(heap[o].telemetry) => heap[o].telemetry[1].invocationCount < MaxInvocations
          /\ heap' = [heap EXCEPT ![o].telemetry =
                        IF IsSome(@)
                        THEN Some(smoothedTelemetry(@[1], success, latencyMs))
                        ELSE Some(firstTelemetry(success, latencyMs))]
          /\ last' = call
          /\ UNCHANGED <<manifests, capsules, aliasMap, sessionCache, manifestCache, now>>

-----------------------------------------------------------------------------
(* Environment: the clock, and a caller holding a returned manifest *)

Tick ==
  /\ now < MaxTicks * TickStep
  /\ now' = now + TickStep
  /\ UNCHANGED <<heap, manifests, capsules, aliasMap, sessionCache, manifestCache, last>>

\* the caller assigns to a field of the object getManifest has just returned
CallerMutate ==
  /\ last.op = "getManifest"
  /\ IsSome(last.resp)
  /\ heap[last.resp[1]].description # "edited"
  /\ heap' = [heap EXCEPT ![last.resp[1]].description = "edited"]
  /\ last' = [op |-> "callerMutate", req |-> last.resp[1], at |-> now, resp |-> None]
  /\ UNCHANGED <<manifests, capsules, aliasMap, sessionCache, manifestCache, now>>

-----------------------------------------------------------------------------
(* Inputs of the search specification *)

Manifest(id, aliases, summary, description, tags, latencyClass, capabilities, host) ==
  [ id |-> id, aliases |-> aliases, summary |-> summary, description |-> description,
    tags |-> tags, latencyClass |-> latencyClass, capabilities |-> capabilities,
    hostCompatibility |-> host, telemetry |-> None ]

SearchCatalog ==
  << Manifest(sABC, Some(<<sBCupper>>), sX, "v1", <<sZ>>, "both", None, None),
     Manifest(sY, None, sABC, "v1", <<sABC, sAB, sBC, sA>>, "outer", Some(<<sABC>>),
              Some([scm |-> Some(<<"github">>), os |-> Some(<<"linux">>),
                    needsGui |-> TRUE])) >>

Request(query, k, tags, latencyClass, hostCaps) ==
  [ query |-> query, k |-> k, tags |-> tags, latencyClass |-> latencyClass,
    hostCaps |-> hostCaps ]

NoGuiMac == [scm |-> Some(<<"gitlab">>), os |-> Some("darwin"), hasGui |-> FALSE]

Requests ==
  { Request(sABCupper, Some(1), None, None, None),
    Request(sABCupper, Some(1), None, None, Some(NoGuiMac)),
    Request(sBC, None, Some(<<sZ, sBC>>), Some("outer"), None) }

TelemetryIds == {sABC, sNope}
Latencies == {100}

-----------------------------------------------------------------------------
(* Specification of the registry under search traffic *)

EmptyRegistry ==
  /\ manifests = <<>>
  /\ capsules = <<>>
  /\ aliasMap = <<>>
  /\ sessionCache = <<>>
  /\ manifestCache = <<>>
  /\ now = 0
  /\ last = [op |-> "new", req |-> None, at |-> 0, resp |-> None]
  /\ invocations = <<>>
  /\ reply = None

Init ==
  /\ heap = SearchCatalog
  /\ EmptyRegistry

Next ==
  \/ /\ \E o \in DOMAIN heap : Register(o)
     /\ UNCHANGED serverVars
  \/ /\ \E r \in Requests : Search(r)
     /\ UNCHANGED serverVars
  \/ /\ \E id \in TelemetryIds, success \in BOOLEAN, l \in Latencies :
          UpdateTelemetry(id, success, l)
     /\ UNCHANGED serverVars
  \/ /\ Tick
     /\ UNCHANGED serverVars

Spec == Init /\ [][Next]_vars

-----------------------------------------------------------------------------
(* Properties of Search, checked under Spec *)

SearchAnswered == last.op = "search"

\* what the specification asks of a returned capsule, filter by filter
SatisfiesLatency(request, capsule) ==
  IsSome(request.latencyClass)
    => capsule.latencyClass \in {"both", request.latencyClass[1]}

SatisfiesTags(request, capsule) ==
  (IsSome(request.tags) /\ request.tags[1] # <<>>)
    => \E t \in {request.tags[1][i] : i \in 1..Len(request.tags[1])} :
         t \in {capsule.tags[i] : i \in 1..Len(capsule.tags)}

SatisfiesHost(request, capsule) ==
  LET spec == manifestOf(capsule.id)
  IN (IsSome(request.hostCaps) /\ IsSome(spec.hostCompatibility)) =>
       LET caps == request.hostCaps[1]
           hc == spec.hostCompatibility[1]
       IN /\ (IsSome(caps.scm) /\ IsSome(hc.scm)) =>
               {caps.scm[1][i] : i \in 1..Len(caps.scm[1])}
                 \cap {hc.scm[1][i] : i \in 1..Len(hc.scm[1])} # {}
          /\ (IsSome(caps.os) /\ IsSome(hc.os)) =>
               caps.os[1] \in {hc.os[1][i] : i \in 1..Len(hc.os[1])}
          /\ hc.needsGui => caps.hasGui

\* C1: every capsule of every Search response, fresh or served from the
\* search-result cache, satisfies the tag filter, the latency filter and the
\* host-capability filter of the request it answers.
FilterSoundness ==
  SearchAnswered =>
    \A i \in 1..Len(last.resp.capsules) :
      /\ SatisfiesLatency(last.req, last.resp.capsules[i])
      /\ SatisfiesTags(last.req, last.resp.capsules[i])
      /\ SatisfiesHost(last.req, last.resp.capsules[i])

\* a Search call for request r is the step being taken, directly after a
\* Search call for the same request
RepeatedSearch(r) ==
  /\ SearchAnswered
  /\ last.req = r
  /\ Search(r)

EntryYoung(r) ==
  \E i \in 1..Len(sessionCache) :
    /\ sessionCache[i].key = cacheKeyOf(r)
    /\ now - sessionCache[i].timestamp < CACHE_TTL

ScoringCount(request) == Len(scoredOf(request))

\* C3: the total of a freshly computed response is the number of scoring
\* capsules before truncation, and a cache hit that directly follows the
\* fresh computation of the same request reports the same total.
TotalCountsScoringCapsules ==
  [][\A r \in Requests :
       Search(r) =>
         /\ ~ last'.resp.cacheHit => last'.resp.total = ScoringCount(r)
         /\ (last'.resp.cacheHit /\ SearchAnswered /\ last.req = r /\ ~ last.resp.cacheHit)
              => last'.resp.total = last.resp.total]_vars

\* the stored capsules that pass the filters of the answered request
Survivors == SelectSeq(capsules, LAMBDA c : passesFilters(last.req, c))

IsExact(c) == exactMatch(c, toLowerCase(last.req.query))

FreshAnswer == SearchAnswered /\ ~ last.resp.cacheHit

\* C4 as claimed (for a freshly computed response): a capsule that passes the
\* filters and whose identifier or alias equals the query is the first
\* element of the result list.
ExactMatchFirst ==
  FreshAnswer =>
    \A i \in 1..Len(Survivors) :
      IsExact(Survivors[i]) =>
        /\ last.resp.capsules # <<>>
        /\ last.resp.capsules[1] = Survivors[i]

\* every stored success score lies in [0,1]
ScoresInUnitInterval ==
  \A o \in DOMAIN heap :
    IsSome(heap[o].telemetry) => heap[o].telemetry[1].successScore \in 0..Scale

\* C4 as amended: when a capsule that passes the filters is an exact match,
\* every surviving capsule that is not an exact match accumulates fewer than
\* 80 points before the telemetry boost, success scores lie in [0,1] and the
\* limit is at least 1, the first element of a freshly computed result list
\* is an exact-match capsule.
ExactMatchFirstWhenOthersBelow80 ==
  ( /\ FreshAnswer
    /\ OrElse(last.req.k, DefaultK) >= 1
    /\ ScoresInUnitInterval
    /\ \E i \in 1..Len(Survivors) : IsExact(Survivors[i])
    /\ \A i \in 1..Len(Survivors) :
         ~ IsExact(Survivors[i]) =>
           rawScore(Survivors[i], toLowerCase(last.req.query),
                    queryWordsOf(toLowerCase(last.req.query))) < 80 )
  => /\ last.resp.capsules # <<>>
     /\ IsExact(last.resp.capsules[1])

\* an exact match leads a fresh result list that also holds another capsule,
\* while the exact match carries a telemetry boost below 1
ExactMatchFirstWitness ==
  /\ FreshAnswer
  /\ Len(last.resp.capsules) >= 2
  /\ IsExact(last.resp.capsules[1])
  /\ ~ IsExact(last.resp.capsules[2])
  /\ IsSome(manifestOf(last.resp.capsules[1].id).telemetry)
  /\ manifestOf(last.resp.capsules[1].id).telemetry[1].successScore \in 1..(Scale - 1)

-----------------------------------------------------------------------------
(* Specification of the descriptor store under registration and fetches *)

StoreCatalog ==
  << Manifest(sABC, Some(<<sZ>>), sX, "v1", <<sZ>>, "inner", None, None),
     Manifest(sABC, None, sABCZ, "v2", <<sBC>>, "both", Some(<<sAB>>), None),
     Manifest(sY, Some(<<sABCupper, sZupper>>), sX, "v1", <<>>, "outer", None, None),
     Manifest(sEmpty, None, sX, "v1", <<>>, "both", None, None) >>

Tokens == {sABC, sABCupper, sZ, sY, sEmpty, sNope}

ListRequest(tags, pageSize, offset) ==
  [tags |-> tags, pageSize |-> pageSize, offset |-> offset]

ListRequests == {ListRequest(None, None, None), ListRequest(Some(<<sZ>>), Some(1), Some(1))}

InitStore ==
  /\ heap = StoreCatalog
  /\ EmptyRegistry

NextStore ==
  \/ /\ \E o \in DOMAIN heap : Register(o)
     /\ UNCHANGED serverVars
  \/ /\ \E t \in Tokens : GetManifest(t)
     /\ UNCHANGED serverVars
  \/ /\ \E r \in ListRequests : List(r)
     /\ UNCHANGED serverVars
  \/ /\ ClearCache
     /\ UNCHANGED serverVars
  \/ /\ Tick
     /\ UNCHANGED serverVars

SpecStore == InitStore /\ [][NextStore]_vars

\* the same store with a caller that writes to the objects it receives
NextOwner == NextStore \/ (CallerMutate /\ UNCHANGED serverVars)

SpecOwner == InitStore /\ [][NextOwner]_vars

-----------------------------------------------------------------------------
(* Properties of the descriptor store, checked under SpecStore *)

RegisteredIds == MapKeys(manifests)

\* C5: resolving a registered identifier through the alias table returns
\* that identifier.
SelfAlias == \A id \in RegisteredIds : resolveId(id) = Some(id)

\* C6: a token bound to an identifier stays bound to that identifier.
AliasBindingKept ==
  [][\A i \in 1..Len(aliasMap) :
       \E j \in 1..Len(aliasMap') :
         aliasMap'[j].key = aliasMap[i].key /\ aliasMap'[j].id = aliasMap[i].id]_vars

ManifestAnswered == last.op = "getManifest" /\ IsSome(last.resp)

\* C8: a specification returned by GetManifest is the one currently
\* registered under the resolved identifier, so after a re-registration the
\* replaced specification is no longer returned.
ReplacementVisible ==
  ManifestAnswered =>
    heap[last.resp[1]] = manifestOf(resolveId(last.req)[1])

\* the values the registry stores, and the values its specification cache
\* would hand out
StoredSpecifications == [i \in 1..Len(manifests) |-> heap[manifests[i].obj]]
CachedSpecifications == [i \in 1..Len(manifestCache) |-> heap[manifestCache[i].manifest]]

\* C9: a write by a caller to an object it received from the registry changes
\* neither what the registry stores nor what it later returns.
CallerCannotChangeStore ==
  [][CallerMutate =>
       /\ StoredSpecifications' = StoredSpecifications
       /\ CachedSpecifications' = CachedSpecifications]_vars

\* the projection of a specification onto the capsule fields
Projection(spec) ==
  <<spec.id, spec.aliases, spec.summary, spec.tags, spec.latencyClass, spec.capabilities>>

CapsuleFields(c) == <<c.id, c.aliases, c.summary, c.tags, c.latencyClass, c.capabilities>>

\* C10: the identifiers with a capsule are the identifiers with a
\* specification, and each capsule is the projection of the specification
\* stored under its identifier.
CapsuleConsistency ==
  /\ MapKeys(capsules) = RegisteredIds
  /\ \A i \in 1..Len(capsules) :
       /\ capsules[i].key = capsules[i].id
       /\ CapsuleFields(capsules[i]) = Projection(manifestOf(capsules[i].id))

\* an identifier has been registered again with another specification (the
\* specification cache still holds the replaced object) next to a second
\* identifier
CapsuleConsistencyWitness ==
  /\ Len(capsules) >= 2
  /\ sABC \in RegisteredIds
  /\ IsSome(manifestOf(sABC).capabilities)
  /\ \E i \in 1..Len(manifestCache) :
       /\ manifestCache[i].key = sABC
       /\ heap[manifestCache[i].manifest] # manifestOf(sABC)

-----------------------------------------------------------------------------
(* Specification of the two caches under a caller that fills them *)

CacheCatalog ==
  << Manifest(sA, None, sABC, "v1", <<sABC>>, "both", None, None),
     Manifest(sB, None, sX, "v1", <<sABC>>, "both", None, None),
     Manifest(sC, None, sX, "v1", <<>>, "inner", None, None),
     Manifest(sX, None, sX, "v1", <<>>, "inner", None, None),
     Manifest(sY, None, sX, "v1", <<>>, "outer", None, None),
     Manifest(sZ, None, sX, "v1", <<>>, "outer", None, None) >>

\* the maps after `new SubagentRegistry(catalog)`: register() of each
\* manifest of the first n, in order
RECURSIVE constructedManifests(_, _)
constructedManifests(catalog, n) ==
  IF n = 0 THEN <<>>
  ELSE MapSet(constructedManifests(catalog, n - 1), [key |-> catalog[n].id, obj |-> n])

RECURSIVE constructedCapsules(_, _)
constructedCapsules(catalog, n) ==
  IF n = 0 THEN <<>>
  ELSE MapSet(constructedCapsules(catalog, n - 1), capsuleOf(catalog[n]))

RECURSIVE constructedAliases(_, _)
constructedAliases(catalog, n) ==
  IF n = 0 THEN <<>>
  ELSE registerAliases(constructedAliases(catalog, n - 1), catalog[n])

InitCache ==
  /\ heap = CacheCatalog
  /\ manifests = constructedManifests(CacheCatalog, Len(CacheCatalog))
  /\ capsules = constructedCapsules(CacheCatalog, Len(CacheCatalog))
  /\ aliasMap = constructedAliases(CacheCatalog, Len(CacheCatalog))
  /\ sessionCache = <<>>
  /\ manifestCache = <<>>
  /\ now = 0
  /\ last = [op |-> "new", req |-> None, at |-> 0, resp |-> None]
  /\ invocations = <<>>
  /\ reply = None

\* the limit of a cached search (second component of its key)
LimitOf(entry) == entry.key[2]

\* the caller issues searches that differ in their limit: 1, 2, 3, ...
NextLimit ==
  IF sessionCache = <<>> THEN 1
  ELSE 1 + (CHOOSE m \in {LimitOf(sessionCache[i]) : i \in 1..Len(sessionCache)} :
              \A i \in 1..Len(sessionCache) : LimitOf(sessionCache[i]) <= m)

\* the searches issued and the manifests fetched so far by the caller, which
\* fetches the manifests in catalog order, one after each search
Searched == NextLimit - 1

Fetched ==
  IF manifestCache = <<>> THEN 0
  ELSE CHOOSE i \in 1..Len(CacheCatalog) :
         /\ MapHas(manifestCache, CacheCatalog[i].id)
         /\ \A j \in (i + 1)..Len(CacheCatalog) : ~ MapHas(manifestCache, CacheCatalog[j].id)

FillSearchCache ==
  /\ NextLimit <= MaxKeys
  /\ Fetched = Len(CacheCatalog) \/ Fetched >= Searched
  /\ Search(Request(sABC, Some(NextLimit), None, None, None))

FillManifestCache ==
  /\ Fetched < Len(CacheCatalog)
  /\ Searched > Fetched
  /\ GetManifest(CacheCatalog[Fetched + 1].id)

NextCache ==
  \/ /\ FillSearchCache
     /\ UNCHANGED serverVars
  \/ /\ FillManifestCache
     /\ UNCHANGED serverVars
  \/ /\ Tick
     /\ UNCHANGED serverVars

SpecCache == InitCache /\ [][NextCache]_vars

\* a step that adds a key to a cache holding n entries leaves n entries and
\* drops an entry with the smallest time stamp
InsertIntoFull(cache, cacheAfter, n) ==
  (Len(cache) = n /\ MapKeys(cacheAfter) \ MapKeys(cache) # {})
    => /\ Len(cacheAfter) = n
       /\ \E i \in 1..Len(cache) :
            /\ cache[i].key \notin MapKeys(cacheAfter)
            /\ \A j \in 1..Len(cache) : cache[i].timestamp <= cache[j].timestamp

\* C7: the search-result cache never holds more than 20 entries and the
\* specification cache never more than 5; inserting one more distinct key
\* into a cache that is at capacity leaves it at capacity, the entry removed
\* being one with the oldest time stamp.
CacheCapacity ==
  [][/\ Len(sessionCache') <= MAX_SEARCH_CACHE
     /\ Len(manifestCache') <= MAX_MANIFEST_CACHE
     /\ InsertIntoFull(sessionCache, sessionCache', MAX_SEARCH_CACHE)
     /\ InsertIntoFull(manifestCache, manifestCache', MAX_MANIFEST_CACHE)]_vars

\* the 21st distinct search has been cached and the first one is gone; the
\* sixth manifest has been cached and the first one is gone
CacheCapacityWitness ==
  /\ Len(sessionCache) = MAX_SEARCH_CACHE
  /\ \E i \in 1..Len(sessionCache) : LimitOf(sessionCache[i]) = MAX_SEARCH_CACHE + 1
  /\ \A i \in 1..Len(sessionCache) : LimitOf(sessionCache[i]) # 1
  /\ Len(manifestCache) = MAX_MANIFEST_CACHE
  /\ MapHas(manifestCache, CacheCatalog[MAX_MANIFEST_CACHE + 1].id)
  /\ ~ MapHas(manifestCache, CacheCatalog[1].id)

-----------------------------------------------------------------------------
(* Specification of the ranker on the example corpus of the design *)

sSecurityAuditor == <<"s", "e", "c", "u", "r", "i", "t", "y", "-", "a", "u", "d", "i", "t", "o", "r">>
sSecurity == <<"s", "e", "c", "u", "r", "i", "t", "y">>
sScans == <<"s", "c", "a", "n", "s", " ", "f", "o", "r", " ", "v", "u", "l", "n", "e", "r", "a", "b", "i", "l", "i", "t", "i", "e", "s">>
sTestRunner == <<"t", "e", "s", "t", "-", "r", "u", "n", "n", "e", "r">>
sTesting == <<"t", "e", "s", "t", "i", "n", "g">>
sRunsTests == <<"r", "u", "n", "s", " ", "t", "e", "s", "t", "s">>
sSecurityAudit == <<"s", "e", "c", "u", "r", "i", "t", "y", " ", "a", "u", "d", "i", "t">>
sTestingSecurity == <<"t", "e", "s", "t", "i", "n", "g", " ", "s", "e", "c", "u", "r", "i", "t", "y">>

ExampleCatalog ==
  << Manifest(sSecurityAuditor, None, sScans, "v1", <<sSecurity>>, "inner", None, None),
     Manifest(sTestRunner, None, sRunsTests, "v1", <<sTesting>>, "outer", None,
              Some([scm |-> None, os |-> Some(<<"linux">>), needsGui |-> FALSE])) >>

ExampleRequest == Request(sSecurityAudit, Some(5), None, None, None)

ExampleRequests ==
  { ExampleRequest,
    Request(sSecurityAudit, None, None, Some("inner"),
            Some([scm |-> None, os |-> Some("darwin"), hasGui |-> TRUE])),
    Request(sTestingSecurity, Some(1), Some(<<sTesting, sSecurity>>), None, None) }

ExampleTelemetryIds == {sSecurityAuditor, sSecurity}

InitExample ==
  /\ heap = ExampleCatalog
  /\ EmptyRegistry

NextExample ==
  \/ /\ \E o \in DOMAIN heap : Register(o)
     /\ UNCHANGED serverVars
  \/ /\ \E r \in ExampleRequests : Search(r)
     /\ UNCHANGED serverVars
  \/ /\ \E id \in ExampleTelemetryIds, success \in BOOLEAN, l \in Latencies :
          UpdateTelemetry(id, success, l)
     /\ UNCHANGED serverVars
  \/ /\ ClearCache
     /\ UNCHANGED serverVars

SpecExample == InitExample /\ [][NextExample]_vars

-----------------------------------------------------------------------------
(* Properties of a fresh search, checked under SpecExample *)

\* the words of the normalized query of a request
WordsOf(request) == queryWordsOf(toLowerCase(request.query))

ElementsOf(arr) == {arr[i] : i \in 1..Len(arr)}

\* some term of the scoring function applies to the capsule
HasSignal(request, c) ==
  LET q == toLowerCase(request.query)
  IN \/ toLowerCase(c.id) = q
     \/ \E a \in ElementsOf(OrElse(c.aliases, <<>>)) : toLowerCase(a) = q
     \/ \E t \in ElementsOf(c.tags) : includes(q, toLowerCase(t))
     \/ \E t \in ElementsOf(c.tags), w \in ElementsOf(WordsOf(request)) :
          includes(toLowerCase(t), w)
     \/ \E w \in ElementsOf(WordsOf(request)) : includes(toLowerCase(c.summary), w)
     \/ \E k \in ElementsOf(OrElse(c.capabilities, <<>>)) : includes(q, toLowerCase(k))

\* the positions, in the capsule map, of the capsules that satisfy every
\* filter of the request and carry a matching signal
ScoringSet(request) ==
  {i \in 1..Len(capsules) :
     /\ SatisfiesLatency(request, capsules[i])
     /\ SatisfiesTags(request, capsules[i])
     /\ SatisfiesHost(request, capsules[i])
     /\ HasSignal(request, capsules[i])}

\* C11: a freshly computed response counts and returns exactly the capsules
\* that pass every filter and have a matching signal (limit permitting); on
\* the two-capsule example the query "security audit" with limit 5 returns
\* security-auditor first with total = 1.
FreshScoringSet ==
  FreshAnswer =>
    /\ last.resp.total = Cardinality(ScoringSet(last.req))
    /\ \A j \in 1..Len(last.resp.capsules) :
         \E i \in ScoringSet(last.req) : capsules[i] = last.resp.capsules[j]
    /\ OrElse(last.req.k, DefaultK) >= Cardinality(ScoringSet(last.req))
         => \A i \in ScoringSet(last.req) :
              \E j \in 1..Len(last.resp.capsules) : last.resp.capsules[j] = capsules[i]
    /\ (last.req = ExampleRequest /\ MapKeys(capsules) = {sSecurityAuditor, sTestRunner})
         => /\ last.resp.total = 1
            /\ last.resp.capsules[1].id = sSecurityAuditor

\* the example query has been answered afresh on the two-capsule corpus
FreshScoringSetWitness ==
  /\ FreshAnswer
  /\ last.req = ExampleRequest
  /\ MapKeys(capsules) = {sSecurityAuditor, sTestRunner}
  /\ Len(last.resp.capsules) = 1

\* the telemetry block of the specification stored under an identifier
TelemetryOf(id) == manifestOf(id).telemetry

\* the final score of a capsule as a multiple of 1/(10*Scale): the accumulated
\* points times (0.8 + 0.2*s) whenever a success score s is present
FinalScoreOf(request, c) ==
  LET points == rawScore(c, toLowerCase(request.query), WordsOf(request))
  IN IF IsSome(TelemetryOf(c.id))
       THEN points * (8 * Scale + 2 * TelemetryOf(c.id)[1].successScore)
       ELSE points * 10 * Scale

\* the position of a capsule in registration order
PositionOf(c) == CHOOSE i \in 1..Len(capsules) : capsules[i].id = c.id

\* capsule c ranks strictly before capsule d
RanksBefore(request, c, d) ==
  \/ FinalScoreOf(request, c) > FinalScoreOf(request, d)
  \/ /\ FinalScoreOf(request, c) = FinalScoreOf(request, d)
     /\ PositionOf(c) < PositionOf(d)

\* C12: a freshly computed response holds the first min(limit, total) capsules
\* of the scoring set in descending order of final score, capsules of equal
\* score in registration order; the limit is 5 when the request has none, and
\* the response never holds more capsules than the limit.
RankedByFinalScore ==
  (FreshAnswer /\ OrElse(last.req.k, 5) >= 0) =>
    LET limit == OrElse(last.req.k, 5)
        page == last.resp.capsules
    IN /\ Len(page) = Min(limit, last.resp.total)
       /\ Len(page) <= limit
       /\ \A j \in 1..Len(page) : \E i \in ScoringSet(last.req) : capsules[i] = page[j]
       /\ \A j, jj \in 1..Len(page) : j < jj => RanksBefore(last.req, page[j], page[jj])
       /\ \A i \in ScoringSet(last.req) :
            \/ \E j \in 1..Len(page) : page[j] = capsules[i]
            \/ \A j \in 1..Len(page) : RanksBefore(last.req, page[j], capsules[i])

\* C13: whenever the stored specification of a capsule carries a success
\* score s, a value of 0 included, the score the ranker computes for the capsule
\* is its accumulated points times (0.8 + 0.2*s).
MultiplierApplied ==
  \A r \in ExampleRequests, i \in 1..Len(capsules) :
    IsSome(TelemetryOf(capsules[i].id)) =>
      finalScore(capsules[i], toLowerCase(r.query), WordsOf(r))
        = rawScore(capsules[i], toLowerCase(r.query), WordsOf(r))
            * (8 * Scale + 2 * TelemetryOf(capsules[i].id)[1].successScore)

-----------------------------------------------------------------------------
(* Properties of the telemetry update, checked under SpecExample *)

\* the telemetry block that a single observation defines
Observation(success, latencyMs) ==
  [ successScore |-> IF success THEN Scale ELSE 0,
    typicalLatencyMs |-> latencyMs * Scale,
    invocationCount |-> 1 ]

IsRegistered(id) == \E i \in 1..Len(manifests) : manifests[i].key = id

TelemetryInRange ==
  \A o \in DOMAIN heap :
    IsSome(heap[o].telemetry) =>
      /\ heap[o].telemetry[1].successScore >= 0
      /\ heap[o].telemetry[1].successScore <= Scale
      /\ heap[o].telemetry[1].invocationCount >= 1

\* a specification has been updated twice, with both outcomes
TelemetryInRangeWitness ==
  \E o \in DOMAIN heap :
    /\ IsSome(heap[o].telemetry)
    /\ heap[o].telemetry[1].invocationCount = 2
    /\ heap[o].telemetry[1].successScore > 0
    /\ heap[o].telemetry[1].successScore < Scale

\* C17: an update for an identifier without a stored specification changes
\* no specification, capsule, alias binding or cache entry, and creates none.
UnknownUpdateIsNoOp ==
  [][\A id \in ExampleTelemetryIds, success \in BOOLEAN, l \in Latencies :
       (~ IsRegistered(id) /\ UpdateTelemetry(id, success, l))
         => UNCHANGED <<heap, manifests, capsules, aliasMap, sessionCache,
                        manifestCache>>]_vars

\* an update for an unknown identifier has returned while the search cache
\* holds an entry
UnknownUpdateWitness ==
  /\ last.op = "updateTelemetry"
  /\ ~ IsRegistered(last.req.id)
  /\ Len(manifests) > 0
  /\ Len(sessionCache) > 0

-----------------------------------------------------------------------------
(* Specification of the paginated listing: a registry constructed from the
   first five manifests of a catalog of six *)

Constructed == 5

PageSizes == {None, Some(0), Some(2), Some(-1)}
Offsets == {None, Some(0), Some(1), Some(4), Some(7), Some(-1)}
TagFilters == {None, Some(<<>>), Some(<<sABC>>)}

PageRequests ==
  {ListRequest(t, p, o) : t \in TagFilters, p \in PageSizes, o \in Offsets}

InitList ==
  /\ heap = CacheCatalog
  /\ manifests = constructedManifests(CacheCatalog, Constructed)
  /\ capsules = constructedCapsules(CacheCatalog, Constructed)
  /\ aliasMap = constructedAliases(CacheCatalog, Constructed)
  /\ sessionCache = <<>>
  /\ manifestCache = <<>>
  /\ now = 0
  /\ last = [op |-> "new", req |-> None, at |-> 0, resp |-> None]
  /\ invocations = <<>>
  /\ reply = None

NextList ==
  \/ /\ \E o \in DOMAIN heap : Register(o)
     /\ UNCHANGED serverVars
  \/ /\ \E r \in PageRequests : List(r)
     /\ UNCHANGED serverVars

SpecList == InitList /\ [][NextList]_vars

-----------------------------------------------------------------------------
(* Properties of the listing, checked under SpecList *)

\* the capsules that satisfy the tag filter of a request, in registration order
FilteredBy(request) == SelectSeq(capsules, LAMBDA c : SatisfiesTags(request, c))

\* the page of `count` elements that follows the first `skip` elements
PageOf(seq, skip, count) ==
  [i \in 1..Max(0, Min(count, Len(seq) - skip)) |-> seq[skip + i]]

\* the listing that a page size and an offset describe
Listing(request, pageSize, offset) ==
  [capsules |-> PageOf(FilteredBy(request), offset, pageSize),
   total |-> Len(FilteredBy(request)),
   hasMore |-> offset + pageSize < Len(FilteredBy(request))]

ExamplePage == ListRequest(None, Some(2), Some(1))

\* C18: with page size and offset >= 0 the listing holds the capsules at
\* positions offset .. offset + pageSize - 1 of the filtered sequence in
\* registration order, its total is the filtered length and hasMore holds
\* exactly if offset + pageSize < total; page size 2 at offset 1 over five
\* capsules gives the capsules at (zero-based) indices 1 and 2, hasMore and
\* total 5.
ListReturnsPage ==
  (/\ last.op = "list"
   /\ OrElse(last.req.pageSize, 50) >= 0
   /\ OrElse(last.req.offset, 0) >= 0)
    => /\ last.resp = Listing(last.req, OrElse(last.req.pageSize, 50),
                              OrElse(last.req.offset, 0))
       /\ (last.req = ExamplePage /\ Len(capsules) = 5)
            => last.resp = [capsules |-> <<capsules[2], capsules[3]>>,
                            total |-> 5, hasMore |-> TRUE]

\* the example page has been listed over five capsules
ListReturnsPageWitness ==
  /\ last.op = "list"
  /\ last.req = ExamplePage
  /\ Len(capsules) = 5
  /\ Len(last.resp.capsules) = 2

\* a page size or an offset as the listing treats it when a negative value
\* counts as the default
Normalized(field, default) ==
  IF IsSome(field) /\ field[1] >= 0 THEN field[1] ELSE default

\* C19: a listing with a negative page size or a negative offset answers as
\* if the default (50, respectively 0) had been supplied for that field.
NegativeFieldsDefaulted ==
  (/\ last.op = "list"
   /\ \/ OrElse(last.req.pageSize, 50) < 0
      \/ OrElse(last.req.offset, 0) < 0)
    => last.resp = Listing(last.req, Normalized(last.req.pageSize, 50),
                           Normalized(last.req.offset, 0))

-----------------------------------------------------------------------------
(* Properties of a fetch by an unknown token, checked under SpecStore *)

\* the token is bound in the table of registered identifiers and aliases
IsBound(token) == \E i \in 1..Len(aliasMap) : aliasMap[i].key = toLowerCase(token)

\* C20: a fetch with a token that matches no registered identifier or alias
\* answers not-found and leaves the store, the alias table and both caches
\* as they are.
UnknownTokenNotFound ==
  [][\A t \in Tokens :
       (~ IsBound(t) /\ GetManifest(t))
         => /\ last'.resp = None
            /\ UNCHANGED <<heap, manifests, capsules, aliasMap, sessionCache,
                           manifestCache>>]_vars

\* an unknown token has been fetched from a registry whose specification
\* cache holds an entry
UnknownTokenWitness ==
  /\ last.op = "getManifest"
  /\ last.req = sNope
  /\ last.resp = None
  /\ Len(manifests) > 0
  /\ Len(manifestCache) > 0

-----------------------------------------------------------------------------
(* Tool server (src/src/registry-mcp-server.ts) and runner
   (runSubagentFromManifest).  A handler runs to its next `await` in one step;
   an invoke_subagent call therefore takes four: the call itself, up to the
   dynamic import; the fetch of the manifest and the start of the runner; the
   exit of the runner when the engine settles; the handler's continuation,
   which feeds the outcome back and responds. *)

\* an invoke_subagent call at its first suspension point
Invocation(token, timeout) ==
  [ token |-> token,          \* args.id
    timeout |-> timeout,      \* args.timeoutMs
    pc |-> "import",          \* "import", "running", "settled", "done"
    manifest |-> None,        \* the object getManifest returned
    startTime |-> 0,          \* Date.now() before the runner was called
    engine |-> FALSE,         \* execute() has been called
    timer |-> "none",         \* "none", "armed", "fired", "cleared"
    outcome |-> "none",       \* "result", "noResult", "thrown"
    telemetry |-> <<>> ]      \* the updateTelemetry calls made for it

ToolResponse(tool, isError, call) == [tool |-> tool, isError |-> isError, call |-> call]

registryVars ==
  <<heap, manifests, capsules, aliasMap, sessionCache, manifestCache, now, last>>

\* search_subagents without the handler's catch clause: the TypeError on
\* absent arguments leaves the handler, and no response is made
CallSearchUncaught(args) ==
  IF ~ IsSome(args)
  THEN /\ reply' = None
       /\ UNCHANGED <<registryVars, invocations>>
  ELSE /\ Search(args[1])
       /\ reply' = Some(ToolResponse("search_subagents", FALSE, 0))
       /\ UNCHANGED invocations

\* search_subagents: registry.search(args); a TypeError on absent arguments is
\* caught by the handler
CallSearch(args) ==
  IF ~ IsSome(args)
  THEN /\ reply' = Some(ToolResponse("search_subagents", TRUE, 0))
       /\ UNCHANGED <<registryVars, invocations>>
  ELSE /\ Search(args[1])
       /\ reply' = Some(ToolResponse("search_subagents", FALSE, 0))
       /\ UNCHANGED invocations

\* get_subagent_manifest: an absent manifest is answered with isError
CallGetManifest(args) ==
  IF ~ IsSome(args)
  THEN /\ reply' = Some(ToolResponse("get_subagent_manifest", TRUE, 0))
       /\ UNCHANGED <<registryVars, invocations>>
  ELSE /\ GetManifest(args[1])
       /\ reply' = Some(ToolResponse("get_subagent_manifest", ~ IsSome(last'.resp), 0))
       /\ UNCHANGED invocations

CallList(args) ==
  IF ~ IsSome(args)
  THEN /\ reply' = Some(ToolResponse("list_subagents", TRUE, 0))
       /\ UNCHANGED <<registryVars, invocations>>
  ELSE /\ List(args[1])
       /\ reply' = Some(ToolResponse("list_subagents", FALSE, 0))
       /\ UNCHANGED invocations

CallUnknown ==
  /\ reply' = Some(ToolResponse("unknown", TRUE, 0))
  /\ UNCHANGED <<registryVars, invocations>>

\* invoke_subagent up to `await import('./runner.js')`
CallInvoke(token, timeout) ==
  /\ Len(invocations) < MaxInvocations
  /\ invocations' = Append(invocations, Invocation(token, timeout))
  /\ UNCHANGED <<registryVars, reply>>

\* setTimeout at the start of the runner: armed only for a truthy timeout
armTimer(timeout) == IF IsSome(timeout) /\ timeout[1] # 0 THEN "armed" ELSE "none"

\* the `finally` clause of the runner, on the exit path `path`, cancelling
\* the timer only after a result
finallyTimerAfterResultOnly(timer, path) ==
  IF timer = "armed" /\ path = "result" THEN "cleared" ELSE timer

\* the `finally` clause of the runner: clearTimeout on every exit path
finallyTimer(timer, path) == IF timer = "armed" THEN "cleared" ELSE timer

\* invoke_subagent from the import to the first `await` inside the runner:
\* getManifest, then either the not-found response or the start of the engine
ResolveInvoke(i) ==
  LET inv == invocations[i]
  IN /\ inv.pc = "import"
     /\ IF ~ IsSome(inv.token)
        THEN /\ reply' = Some(ToolResponse("invoke_subagent", TRUE, i))
             /\ invocations' = [invocations EXCEPT ![i].pc = "done"]
             /\ UNCHANGED registryVars
        ELSE /\ GetManifest(inv.token[1])
             /\ IF ~ IsSome(last'.resp)
                THEN /\ reply' = Some(ToolResponse("invoke_subagent", TRUE, i))
                     /\ invocations' = [invocations EXCEPT ![i].pc = "done"]
                ELSE /\ invocations' =
                          [invocations EXCEPT ![i].pc = "running",
                                              ![i].manifest = last'.resp,
                                              ![i].startTime = now,
                                              ![i].engine = TRUE,
                                              ![i].timer = armTimer(inv.timeout)]
                     /\ UNCHANGED reply

\* the runner leaves its loop: on a message of type result it returns, when
\* the stream ends it throws, and an exception of the engine passes through
RunnerExit(i, path) ==
  LET inv == invocations[i]
  IN /\ inv.pc = "running"
     /\ invocations' = [invocations EXCEPT ![i].pc = "settled",
                                          ![i].outcome = path,
                                          ![i].timer = finallyTimer(inv.timer, path)]
     /\ UNCHANGED <<registryVars, reply>>

EngineResult(i) == RunnerExit(i, "result")
EngineEnds(i) == RunnerExit(i, "noResult")
EngineThrows(i) == RunnerExit(i, "thrown")

\* the timer callback: controller.abort()
TimerFires(i) ==
  LET inv == invocations[i]
  IN /\ inv.timer = "armed"
     /\ now - inv.startTime >= inv.timeout[1]
     /\ invocations' = [invocations EXCEPT ![i].timer = "fired"]
     /\ UNCHANGED <<registryVars, reply>>

\* the outcome fed back with the token of the request in place of manifest.id
feedbackIdOfRequest(inv) == inv.token[1]

\* the identifier the handler feeds back: manifest.id
feedbackId(inv) == heap[inv.manifest[1]].id

\* the handler's continuation after `await runSubagentFromManifest(...)`
Complete(i) ==
  LET inv == invocations[i]
      success == inv.outcome = "result"
      latencyMs == now - inv.startTime
  IN /\ inv.pc = "settled"
     /\ UpdateTelemetry(feedbackId(inv), success, latencyMs)
     /\ invocations' =
          [invocations EXCEPT ![i].pc = "done",
                              ![i].telemetry = Append(@, last'.req)]
     /\ reply' = Some(ToolResponse("invoke_subagent", ~ success, i))

-----------------------------------------------------------------------------
(* Specification of the tool server over a registry constructed from the
   search catalog *)

SearchArgs == {None, Some(Request(sABC, Some(1), None, None, None))}
ManifestArgs == {None, Some(sBCupper), Some(sNope)}
ListArgs == {None, Some(ListRequest(None, None, None))}
InvokeTokens == {Some(sBCupper), Some(sNope)}
Timeouts == {None, Some(TickStep)}

InitServer ==
  /\ heap = SearchCatalog
  /\ manifests = constructedManifests(SearchCatalog, Len(SearchCatalog))
  /\ capsules = constructedCapsules(SearchCatalog, Len(SearchCatalog))
  /\ aliasMap = constructedAliases(SearchCatalog, Len(SearchCatalog))
  /\ sessionCache = <<>>
  /\ manifestCache = <<>>
  /\ now = 0
  /\ last = [op |-> "new", req |-> None, at |-> 0, resp |-> None]
  /\ invocations = <<>>
  /\ reply = None

\* the invoke_subagent calls of a client, their engines and timers, and one
\* step of the clock
NextServer ==
  \/ \E token \in InvokeTokens, timeout \in Timeouts : CallInvoke(token, timeout)
  \/ \E i \in DOMAIN invocations : ResolveInvoke(i)
  \/ \E i \in DOMAIN invocations : EngineResult(i)
  \/ \E i \in DOMAIN invocations : EngineEnds(i)
  \/ \E i \in DOMAIN invocations : EngineThrows(i)
  \/ \E i \in DOMAIN invocations : TimerFires(i)
  \/ \E i \in DOMAIN invocations : Complete(i)
  \/ /\ now < TickStep
     /\ Tick
     /\ UNCHANGED serverVars

SpecServer == InitServer /\ [][NextServer]_vars

\* every tool of the server, with one invoke_subagent call at a time and
\* arguments that may be absent
NextTools ==
  \/ \E args \in SearchArgs : CallSearch(args)
  \/ \E args \in ManifestArgs : CallGetManifest(args)
  \/ \E args \in ListArgs : CallList(args)
  \/ CallUnknown
  \/ \E token \in InvokeTokens \cup {None} :
       /\ \A i \in DOMAIN invocations : invocations[i].pc = "done"
       /\ CallInvoke(token, None)
  \/ \E i \in DOMAIN invocations : ResolveInvoke(i)
  \/ \E i \in DOMAIN invocations : EngineResult(i)
  \/ \E i \in DOMAIN invocations : EngineEnds(i)
  \/ \E i \in DOMAIN invocations : EngineThrows(i)
  \/ \E i \in DOMAIN invocations : Complete(i)

SpecTools == InitServer /\ [][NextTools]_vars

-----------------------------------------------------------------------------
(* Properties of invoke_subagent, checked under SpecServer *)

\* the stored specifications whose identifier or one of whose aliases is the
\* token, compared without regard to case
Matching(token) ==
  {id \in MapKeys(manifests) :
     \/ toLowerCase(id) = toLowerCase(token)
     \/ \E a \in ElementsOf(OrElse(manifestOf(id).aliases, <<>>)) :
          toLowerCase(a) = toLowerCase(token)}

Resolves(inv) == IsSome(inv.token) /\ Matching(inv.token[1]) # {}

CanonicalId(inv) == CHOOSE id \in Matching(inv.token[1]) : TRUE

\* C21: an invoke_subagent call whose token resolves makes exactly one
\* updateTelemetry call, after its engine has settled, with the canonical
\* identifier, success exactly if the engine returned a result, and the time
\* elapsed since the start; a call whose token does not resolve makes none
\* and never starts the engine.
InvocationFeedback ==
  /\ [](\A i \in DOMAIN invocations :
          LET inv == invocations[i]
          IN IF Resolves(inv)
             THEN /\ inv.pc # "done" => inv.telemetry = <<>>
                  /\ inv.pc = "done" =>
                       /\ Len(inv.telemetry) = 1
                       /\ inv.telemetry[1].id = CanonicalId(inv)
                       /\ inv.telemetry[1].success = (inv.outcome = "result")
                       /\ inv.outcome # "none"
             ELSE inv.telemetry = <<>> /\ ~ inv.engine)
  /\ [][\A i \in DOMAIN invocations :
          invocations'[i].telemetry # invocations[i].telemetry =>
            /\ invocations[i].pc = "settled"
            /\ last'.op = "updateTelemetry"
            /\ last'.req = [id |-> CanonicalId(invocations[i]),
                            success |-> invocations[i].outcome = "result",
                            latencyMs |-> now - invocations[i].startTime]
            /\ TelemetryOf(CanonicalId(invocations[i]))'[1].invocationCount
                 = IF IsSome(TelemetryOf(CanonicalId(invocations[i])))
                   THEN TelemetryOf(CanonicalId(invocations[i]))[1].invocationCount + 1
                   ELSE 1]_vars
  /\ [][heap' # heap => \E i \in DOMAIN invocations :
                          invocations'[i].telemetry # invocations[i].telemetry]_vars

\* a call by alias has fed back a failure one tick after its start, and a
\* call with an unknown token has been answered
InvocationFeedbackWitness ==
  \E i, j \in DOMAIN invocations :
    /\ invocations[i].token = Some(sBCupper)
    /\ invocations[i].pc = "done"
    /\ invocations[i].telemetry =
         <<[id |-> sABC, success |-> FALSE, latencyMs |-> TickStep]>>
    /\ invocations[j].token = Some(sNope)
    /\ invocations[j].pc = "done"

-----------------------------------------------------------------------------
(* Specification of every operation of the registry on the example corpus *)

FrameTokens == {sSecurityAuditor, sNope}

InitFrame == InitExample

NextFrame ==
  \/ /\ \E o \in DOMAIN heap : Register(o)
     /\ UNCHANGED serverVars
  \/ /\ Search(ExampleRequest)
     /\ UNCHANGED serverVars
  \/ /\ \E t \in FrameTokens : GetManifest(t)
     /\ UNCHANGED serverVars
  \/ /\ List(ListRequest(None, None, None))
     /\ UNCHANGED serverVars
  \/ /\ ClearCache
     /\ UNCHANGED serverVars
  \/ /\ \E id \in ExampleTelemetryIds, success \in BOOLEAN, l \in Latencies :
          UpdateTelemetry(id, success, l)
     /\ UNCHANGED serverVars

SpecFrame == InitFrame /\ [][NextFrame]_vars

\* a stored object with its telemetry block left out
WithoutTelemetry(manifest) == [manifest EXCEPT !.telemetry = None]

\* C22: search, list, getManifest, clearCache and updateTelemetry leave the
\* stored specifications, capsules and alias bindings in place; the set of
\* registered identifiers never shrinks; the only stored field they change
\* is the telemetry block of the identifier passed to updateTelemetry.
DescriptorFrame ==
  [][/\ MapKeys(manifests) \subseteq MapKeys(manifests')
     /\ (\A o \in DOMAIN heap : ~ Register(o)) =>
          /\ manifests' = manifests
          /\ capsules' = capsules
          /\ aliasMap' = aliasMap
          /\ DOMAIN heap' = DOMAIN heap
          /\ \A o \in DOMAIN heap :
               /\ WithoutTelemetry(heap'[o]) = WithoutTelemetry(heap[o])
               /\ heap'[o] # heap[o] =>
                    /\ last'.op = "updateTelemetry"
                    /\ heap[o].id = last'.req.id]_vars

\* telemetry has been written and the caches have been cleared, with both
\* specifications still registered
DescriptorFrameWitness ==
  /\ last.op = "clearCache"
  /\ Len(manifests) = 2
  /\ Len(capsules) = 2
  /\ \E o \in DOMAIN heap : IsSome(heap[o].telemetry)

-----------------------------------------------------------------------------
(* Properties of the CallTool handler, checked under SpecTools *)

\* the response that ends the call of a tool other than invoke_subagent
Answered(tool) == IsSome(reply') /\ reply'[1].tool = tool /\ reply'[1].call = 0

-----------------------------------------------------------------------------
(* Specification of a caller that fetches, in any order and at any time, the
   specifications of as many subagents as the specification cache holds *)

RefreshTokens == {CacheCatalog[i].id : i \in 1..MAX_MANIFEST_CACHE}

NextRefresh ==
  \/ /\ \E t \in RefreshTokens : GetManifest(t)
     /\ UNCHANGED serverVars
  \/ /\ Tick
     /\ UNCHANGED serverVars

SpecRefresh == InitCache /\ [][NextRefresh]_vars

\* C24: an insertion removes an entry only if the cache would otherwise
\* exceed its capacity, so that writing a key that is present removes no other
\* key; an insertion that evicts removes exactly one entry, one with the
\* smallest time stamp.
EvictionOnlyOnOverflow ==
  [][\A k \in MapKeys(manifestCache) \ MapKeys(manifestCache') :
       /\ Cardinality(MapKeys(manifestCache) \cup MapKeys(manifestCache'))
            > MAX_MANIFEST_CACHE
       /\ Cardinality(MapKeys(manifestCache) \ MapKeys(manifestCache')) = 1
       /\ \A j \in 1..Len(manifestCache) :
            MapGet(manifestCache, k)[1].timestamp <= manifestCache[j].timestamp]_vars

-----------------------------------------------------------------------------
(* Specification of searches and fetches on the example corpus as time
   passes *)

NextStale ==
  \/ /\ \E o \in DOMAIN heap : Register(o)
     /\ UNCHANGED serverVars
  \/ /\ \E r \in {ExampleRequest} : Search(r)
     /\ UNCHANGED serverVars
  \/ /\ \E t \in FrameTokens : GetManifest(t)
     /\ UNCHANGED serverVars
  \/ /\ Tick
     /\ UNCHANGED serverVars

SpecStale == InitExample /\ [][NextStale]_vars

\* the age of a cache entry
AgeOf(entry) == now - entry.timestamp

\* the entry of the search cache under the key of a request, if any
SearchEntry(cache, request) ==
  SelectSeq(cache, LAMBDA e : e.key = <<request.query, OrElse(request.k, 5),
                                        request.tags, request.latencyClass>>)

\* the entry of the specification cache for a token, if any
ManifestEntry(cache, token) ==
  SelectSeq(cache, LAMBDA e : \E i \in 1..Len(aliasMap) :
                                /\ aliasMap[i].key = toLowerCase(token)
                                /\ aliasMap[i].id = e.key)

\* C25: a search flagged cacheHit and a fetch answered from the
\* specification cache are served from an entry younger than the TTL of 5
\* minutes; once the entry is as old as the TTL the request is computed from
\* the store and the entry is stamped anew.
StalenessBound ==
  [][/\ \A r \in {ExampleRequest} :
          Search(r) =>
            LET old == SearchEntry(sessionCache, r)
                new == SearchEntry(sessionCache', r)
            IN /\ last'.resp.cacheHit =>
                    /\ old # <<>>
                    /\ AgeOf(old[1]) < 5 * 60 * 1000
                    /\ sessionCache' = sessionCache
               /\ (old # <<>> /\ AgeOf(old[1]) >= 5 * 60 * 1000) =>
                    /\ ~ last'.resp.cacheHit
                    /\ new # <<>>
                    /\ new[1].timestamp = now
                    /\ last'.resp.total = Cardinality(ScoringSet(r))
     /\ \A t \in FrameTokens :
          GetManifest(t) =>
            LET old == ManifestEntry(manifestCache, t)
                new == ManifestEntry(manifestCache', t)
            IN /\ (IsSome(last'.resp) /\ manifestCache' = manifestCache) =>
                    /\ old # <<>>
                    /\ AgeOf(old[1]) < 5 * 60 * 1000
                    /\ last'.resp = Some(old[1].manifest)
               /\ (old # <<>> /\ AgeOf(old[1]) >= 5 * 60 * 1000) =>
                    /\ new # <<>>
                    /\ new[1].timestamp = now
                    /\ last'.resp = Some(MapGet(manifests, new[1].key)[1].obj)]_vars

\* a search and a fetch have both been recomputed from entries of exactly
\* the TTL's age
StalenessBoundWitness ==
  /\ now = CACHE_TTL
  /\ last.op = "getManifest"
  /\ last.at = now
  /\ IsSome(last.resp)
  /\ \E i \in 1..Len(manifestCache) : manifestCache[i].timestamp = CACHE_TTL
  /\ \E i \in 1..Len(sessionCache) : sessionCache[i].timestamp = CACHE_TTL
  /\ Len(capsules) = 2

-----------------------------------------------------------------------------
(* Properties of the runner, checked under SpecServer *)

\* the runner was called for the invocation and has returned or thrown
Exited(inv) == inv.engine /\ inv.pc \in {"settled", "done"}

\* C27: a runner called with a timeout arms a timer and cancels it on every
\* exit path (a result, the end of the stream, an exception of the engine),
\* so that the abort fires only while the call is pending; the call resolves
\* only on a message of type result and rejects otherwise.
TimerHygiene ==
  /\ [](\A i \in DOMAIN invocations :
          LET inv == invocations[i]
          IN /\ inv.timer # "none" => IsSome(inv.timeout) /\ inv.timeout[1] > 0
             /\ (inv.pc = "running" /\ IsSome(inv.timeout) /\ inv.timeout[1] > 0)
                  => inv.timer \in {"armed", "fired"}
             /\ Exited(inv) => inv.timer # "armed"
             /\ Exited(inv) => inv.outcome \in {"result", "noResult", "thrown"}
             /\ (inv.pc = "done" /\ inv.telemetry # <<>>)
                  => inv.telemetry[1].success = (inv.outcome = "result"))
  /\ [][\A i \in DOMAIN invocations :
          (invocations[i].timer # "fired" /\ invocations'[i].timer = "fired")
            => /\ invocations[i].pc = "running"
               /\ invocations'[i].pc = "running"
               /\ now - invocations[i].startTime >= invocations[i].timeout[1]]_vars

\* a timer has been cancelled when the stream ended without a result, and
\* another has fired before its engine threw
TimerHygieneWitness ==
  \E i, j \in DOMAIN invocations :
    /\ invocations[i].timer = "cleared"
    /\ invocations[i].outcome = "noResult"
    /\ invocations[j].timer = "fired"
    /\ invocations[j].outcome = "thrown"

\* the invocations that have fed their outcome back for an identifier
SettledFor(id) ==
  {i \in DOMAIN invocations :
     /\ invocations[i].pc = "done"
     /\ Resolves(invocations[i])
     /\ CanonicalId(invocations[i]) = id}

InvocationCountOf(id) ==
  IF IsSome(TelemetryOf(id)) THEN TelemetryOf(id)[1].invocationCount ELSE 0

\* C28: however the completions of concurrent invocations of a subagent
\* interleave, each is applied as one update: after n invocations have fed
\* back, the invocation count of the subagent is n.
NoLostUpdates ==
  \A id \in MapKeys(manifests) : InvocationCountOf(id) = Cardinality(SettledFor(id))

\* two invocations of one subagent were in flight together and have both fed
\* back, the later call first
NoLostUpdatesWitness ==
  /\ Len(invocations) = 2
  /\ invocations[1].token = invocations[2].token
  /\ SettledFor(sABC) = {1, 2}
  /\ last.op = "updateTelemetry"
  /\ last.req = invocations[1].telemetry[1]
  /\ invocations[1].startTime = 0
  /\ invocations[2].startTime = 0
  /\ invocations[2].telemetry[1].latencyMs = 0
  /\ invocations[1].telemetry[1].latencyMs = TickStep

\* the page sizes of a client that walks through a listing
WalkSizes == {1, 2, 3}

\* the pages a client gathers that lists from `offset` on and advances by the
\* page size for as long as hasMore is set
RECURSIVE Walk(_, _, _)
Walk(tags, pageSize, offset) ==
  LET page == listResponse(ListRequest(tags, Some(pageSize), Some(offset)))
  IN IF page.hasMore
     THEN page.capsules \o Walk(tags, pageSize, offset + pageSize)
     ELSE page.capsules

\* C29: for a tag filter and a page size >= 1, listing at the offsets 0,
\* pageSize, 2*pageSize, ... until hasMore is false yields every matching
\* capsule once, in registration order, total capsules in all.
PaginationCoverage ==
  \A tags \in TagFilters, pageSize \in WalkSizes :
    LET request == ListRequest(tags, Some(pageSize), Some(0))
    IN /\ Walk(tags, pageSize, 0) = FilteredBy(request)
       /\ Len(Walk(tags, pageSize, 0)) = listResponse(request).total

\* the last page of a walk with page size 2 over five capsules has been
\* listed
PaginationCoverageWitness ==
  /\ last.op = "list"
  /\ last.req = ListRequest(None, Some(2), Some(4))
  /\ Len(capsules) = 5
  /\ Len(last.resp.capsules) = 1
  /\ ~ last.resp.hasMore

-----------------------------------------------------------------------------
(* Properties of the alias table, checked under SpecStore *)

\* C30: every token of the alias table is bound to an identifier that has a
\* stored specification, and a fetch by a token of the table, whatever
\* strings serve as identifiers, returns a specification.
AliasTableClosure ==
  /\ \A i \in 1..Len(aliasMap) : aliasMap[i].id \in MapKeys(manifests)
  /\ (last.op = "getManifest" /\ IsBound(last.req)) => IsSome(last.resp)

====
